---- MODULE Spec2Model ----
(***************************************************************************)
(* The batch job engine of app.py: api_download (job creation), run_job    *)
(* (the background thread of one job), the ThreadPoolExecutor workers that *)
(* execute download_one, and api_job (the status poll).                    *)
(*                                                                         *)
(* Every thread is a record with a pc field named after the source line it *)
(* is about to execute.  jobs_lock is the variable lock: 0 when free, the  *)
(* id of the job whose run_job thread holds it otherwise.  A critical      *)
(* section that performs a single access of shared state (the insertion of *)
(* api_download, the lookup of api_job, the final write of run_job) is one *)
(* step guarded by lock = 0; the two critical sections of run_job that     *)
(* write twice are two steps each, with the lock held in between, because  *)
(* api_job serialises the record after it has released the lock.           *)
(***************************************************************************)
EXTENDS Integers, Sequences, FiniteSets, TLC

DEFAULT_WORKERS == 4
MAX_WORKERS == 8

\* Total number of url entries the clients post, over all requests.
MaxTargets == 2

VARIABLES
    jobs,   \* the registry: job id -> job dict (ids are 1, 2, ... in issue order)
    lock,   \* jobs_lock: 0 = free, j = held by the run_job thread of job j
    dl,     \* the request thread of api_download
    run,    \* run[j]: the run_job thread of job j, with its executor
    api,    \* the request thread of api_job
    seen    \* what the polling client has of the earlier responses, per job

vars == <<jobs, lock, dl, run, api, seen>>

Min(a, b) == IF a < b THEN a ELSE b
Max(a, b) == IF a > b THEN a ELSE b

(***************************************************************************)
(* Request bodies.  A workers field is absent, JSON null, a JSON integer   *)
(* or a JSON string (a sequence of characters).                            *)
(***************************************************************************)
Absent == [t |-> "absent", n |-> 0, s |-> <<>>]
Null == [t |-> "null", n |-> 0, s |-> <<>>]
IntW(n) == [t |-> "int", n |-> n, s |-> <<>>]
StrW(s) == [t |-> "str", n |-> 0, s |-> s]

WorkerInputs ==
    {Absent, Null} \cup {IntW(n) : n \in {-1, 0, 1, 2, MAX_WORKERS + 1}}
        \cup {StrW(s) : s \in {<<"x">>, <<"2">>, <<"-", "1">>, <<"1", "0">>}}

\* The url strings a client posts: a plain url, one with surrounding blanks,
\* and a blank entry.
UrlInputs == {"a", " b ", " "}

RECURSIVE SeqsUpTo(_, _)
SeqsUpTo(S, n) ==
    IF n = 0 THEN {<<>>}
    ELSE LET shorter == SeqsUpTo(S, n - 1)
         IN  shorter \cup {Append(q, x) : q \in {p \in shorter : Len(p) = n - 1}, x \in S}

Requests(n) == [urls : SeqsUpTo(UrlInputs, n), workers : WorkerInputs]

\* str.strip on the url strings of UrlInputs.
Strip(u) ==
    CASE u = " b " -> "b"
      [] u = " " -> ""
      [] OTHER -> u

DigitValue(c) ==
    CASE c = "0" -> 0 [] c = "1" -> 1 [] c = "2" -> 2 [] c = "3" -> 3 [] c = "4" -> 4
      [] c = "5" -> 5 [] c = "6" -> 6 [] c = "7" -> 7 [] c = "8" -> 8 [] c = "9" -> 9
      [] OTHER -> -1

RECURSIVE DigitsValue(_)
\* The value of a string of decimal digits, -1 when it is empty or holds another character.
DigitsValue(s) ==
    IF Len(s) = 0 THEN -1
    ELSE LET d == DigitValue(s[Len(s)])
             front == SubSeq(s, 1, Len(s) - 1)
         IN  IF d < 0 THEN -1
             ELSE IF Len(front) = 0 THEN d
             ELSE LET v == DigitsValue(front) IN IF v < 0 THEN -1 ELSE 10 * v + d

\* int(workers): ok = FALSE stands for the exception int() raises.
PyInt(w) ==
    CASE w.t = "int" -> [ok |-> TRUE, v |-> w.n]
      [] w.t = "str" ->
            LET neg == Len(w.s) > 0 /\ w.s[1] = "-"
                v == DigitsValue(IF neg THEN Tail(w.s) ELSE w.s)
            IN  IF v < 0 THEN [ok |-> FALSE, v |-> 0]
                ELSE [ok |-> TRUE, v |-> IF neg THEN 0 - v ELSE v]
      [] OTHER -> [ok |-> FALSE, v |-> 0]

\* data.get("workers", DEFAULT_WORKERS)
GetWorkers(data) == IF data.workers.t = "absent" THEN IntW(DEFAULT_WORKERS) ELSE data.workers

ClampFailsToOne(w) ==
    LET c == PyInt(w) IN IF c.ok THEN Max(1, Min(c.v, MAX_WORKERS)) ELSE 1

ClampNoCeiling(w) ==
    LET c == PyInt(w) IN IF c.ok THEN Max(1, c.v) ELSE DEFAULT_WORKERS

ClampNoFloor(w) ==
    LET c == PyInt(w) IN IF c.ok THEN Min(c.v, MAX_WORKERS) ELSE DEFAULT_WORKERS

\* try: max(1, min(int(workers), MAX_WORKERS)) except Exception: DEFAULT_WORKERS
ClampWorkers(w) ==
    LET c == PyInt(w) IN IF c.ok THEN Max(1, Min(c.v, MAX_WORKERS)) ELSE DEFAULT_WORKERS

\* [u.strip() for u in data.get("urls", []) if u and u.strip()]
CleanUrls(raw) ==
    LET kept == SelectSeq(raw, LAMBDA u : u # "" /\ Strip(u) # "")
    IN  [i \in 1..Len(kept) |-> Strip(kept[i])]

RejectsUnusable(data) ==
    CleanUrls(data.urls) = <<>> \/ ~PyInt(GetWorkers(data)).ok \/ PyInt(GetWorkers(data)).v < 1

RejectsNothing(data) == FALSE

\* if not urls: the one validation of api_download, made after the worker count has
\* been clamped or defaulted.
Rejects(data) == CleanUrls(data.urls) = <<>>

(***************************************************************************)
(* Job and item records.                                                   *)
(***************************************************************************)
NewJob(id, workers) == [id |-> id, status |-> "pending", items |-> <<>>, workers |-> workers]

NewItemsDistinct(urls) ==
    LET first == SelectSeq([i \in DOMAIN urls |-> i],
                           LAMBDA i : \A h \in 1..(i - 1) : urls[h] # urls[i])
    IN  [i \in DOMAIN first |-> [url |-> urls[first[i]], status |-> "pending", message |-> ""]]

\* [{"url": u, "status": "pending", "message": ""} for u in urls]
NewItems(urls) == [i \in 1..Len(urls) |-> [url |-> urls[i], status |-> "pending", message |-> ""]]

\* What download_one returns: ("done", "") or ("error", str(exc)).
Messages == {"boom"}
Outcomes == {<<"done", "">>} \cup {<<"error", m>> : m \in Messages}

FinalStatusInverted(items) ==
    IF \A i \in DOMAIN items : items[i].status = "done" THEN "error" ELSE "done"

FinalStatusAny(items) ==
    IF \E i \in DOMAIN items : items[i].status = "done" THEN "done" ELSE "error"

FinalStatusPending(items) ==
    IF \A i \in DOMAIN items : items[i].status = "done" THEN "done" ELSE "pending"

\* "done" if all(i["status"] == "done" for i in job["items"]) else "error"
FinalStatus(items) ==
    IF \A i \in DOMAIN items : items[i].status = "done" THEN "done" ELSE "error"

(***************************************************************************)
(* Threads.                                                                *)
(***************************************************************************)
NoData == [urls |-> <<>>, workers |-> Absent]

DlIdle == [pc |-> "idle", data |-> NoData, urls |-> <<>>, workers |-> 0, job_id |-> 0, code |-> 0]

\* The targets accepted so far, over the jobs 1..j (the budget MaxTargets bounds).
RECURSIVE Accepted(_)
Accepted(j) == IF j = 0 THEN 0 ELSE Len(run[j].urls) + Accepted(j - 1)

\* threading.Thread(target=run_job, args=(job_id, urls, ..., workers)): the thread at
\* the first line of run_job, its executor not yet created.
NewRun(job_id, urls, workers) ==
    [pc |-> "l140", job_id |-> job_id, urls |-> urls, workers |-> workers,
     idx |-> 1, futures |-> <<>>, future_map |-> <<>>, yielded |-> {}, cur |-> 0,
     status |-> "", message |-> ""]

NoSnap == [id |-> 0, status |-> "", items |-> <<>>, workers |-> 0]

ApiIdle == [pc |-> "idle", job_id |-> 0, snap |-> NoSnap, k |-> 0, code |-> 0]

\* The items of a response that the client shows as finished (done or error).
TerminalCount(snap) ==
    Cardinality({i \in DOMAIN snap.items : snap.items[i].status \in {"done", "error"}})

\* The client has polled nothing yet.  keep says whether the client compares a
\* response with the earlier ones at all; last[j] is the number of finished items in
\* the latest response for job j (-1: none yet); same[j] is that response, kept for
\* as long as no run_job step has written the record of job j since the lookup that
\* produced it; quiet says the same of the poll that is in flight.
SeenNothing ==
    [keep |-> FALSE, last |-> [j \in 1..MaxTargets |-> -1],
     same |-> [j \in 1..MaxTargets |-> NoSnap], quiet |-> FALSE]

\* A run_job step writes the record of job j.
Written(j) ==
    IF seen.keep THEN [seen EXCEPT !.same[j] = NoSnap, !.quiet = @ /\ api.job_id # j]
    ELSE seen

\* The lookup of a poll for job id has been made.
LookedUp(found) == IF seen.keep THEN [seen EXCEPT !.quiet = found] ELSE seen

\* The response api.snap for job api.job_id reaches the client.
Remember ==
    IF seen.keep
    THEN [seen EXCEPT !.last[api.job_id] = TerminalCount(api.snap),
                      !.same[api.job_id] = IF seen.quiet THEN api.snap ELSE NoSnap,
                      !.quiet = FALSE]
    ELSE seen

Init ==
    /\ jobs = <<>>
    /\ lock = 0
    /\ dl = DlIdle
    /\ run = <<>>
    /\ api = ApiIdle
    /\ seen = SeenNothing

\* The same, with a client that compares each response with the earlier ones.
InitClient ==
    /\ jobs = <<>>
    /\ lock = 0
    /\ dl = DlIdle
    /\ run = <<>>
    /\ api = ApiIdle
    /\ seen = [SeenNothing EXCEPT !.keep = TRUE]

(***************************************************************************)
(* api_download                                                            *)
(***************************************************************************)
\* Lines 190-201: parse the body, clamp workers, reject an empty url list (the 400
\* response is returned by ApiDownloadReject), draw the id.  uuid4 is modelled by the
\* next unused number.
ApiDownload(data) ==
    /\ dl.pc = "idle"
    /\ LET urls == CleanUrls(data.urls)
           workers == ClampWorkers(GetWorkers(data))
       IN  dl' = IF Rejects(data)
                 THEN [pc |-> "l200", data |-> data, urls |-> urls, workers |-> workers,
                       job_id |-> 0, code |-> 400]
                 ELSE [pc |-> "l202", data |-> data, urls |-> urls, workers |-> workers,
                       job_id |-> Len(jobs) + 1, code |-> 0]
    /\ UNCHANGED <<jobs, lock, run, api, seen>>

\* Line 200: return jsonify({"error": "No URLs provided"}), 400
ApiDownloadReject ==
    /\ dl.pc = "l200"
    /\ dl' = DlIdle
    /\ UNCHANGED <<jobs, lock, run, api, seen>>

ApiDownloadInsertDeferred ==
    /\ dl.pc = "l202"
    /\ dl' = [dl EXCEPT !.pc = "l209"]
    /\ UNCHANGED <<jobs, lock, run, api, seen>>

\* Lines 202-208: with jobs_lock: jobs[job_id] = {...}
ApiDownloadInsert ==
    /\ dl.pc = "l202"
    /\ lock = 0
    /\ jobs' = Append(jobs, NewJob(dl.job_id, dl.workers))
    /\ dl' = [dl EXCEPT !.pc = "l209"]
    /\ UNCHANGED <<lock, run, api, seen>>

\* Lines 209-212: thread.start()
ApiDownloadStart ==
    /\ dl.pc = "l209"
    /\ run' = Append(run, NewRun(dl.job_id, dl.urls, dl.workers))
    /\ dl' = [dl EXCEPT !.pc = "l213", !.code = 200]
    /\ UNCHANGED <<jobs, lock, api, seen>>

\* Line 213: return jsonify({"job_id": job_id})
ApiDownloadReturn ==
    /\ dl.pc = "l213"
    /\ dl' = DlIdle
    /\ UNCHANGED <<jobs, lock, run, api, seen>>

(***************************************************************************)
(* run_job, the thread of job j                                            *)
(***************************************************************************)
\* Lines 140-144: take jobs_lock, look the job up, return when it is missing (no
\* line of the program removes a job, so the registry always has it), write
\* status = "running".
RunBegin(j) ==
    /\ run[j].pc = "l140"
    /\ lock = 0
    /\ IF run[j].job_id \in DOMAIN jobs
       THEN /\ lock' = j
            /\ jobs' = [jobs EXCEPT ![j].status = "running"]
            /\ run' = [run EXCEPT ![j].pc = "l145"]
            /\ seen' = Written(j)
       ELSE /\ lock' = 0
            /\ jobs' = jobs
            /\ run' = [run EXCEPT ![j].pc = "returned"]
            /\ seen' = seen
    /\ UNCHANGED <<dl, api>>

\* Line 145: write the items list; the with block ends and releases the lock.
RunPopulate(j) ==
    /\ run[j].pc = "l145"
    /\ jobs' = [jobs EXCEPT ![j].items = NewItems(run[j].urls)]
    /\ lock' = 0
    /\ run' = [run EXCEPT ![j].pc = IF Len(run[j].urls) = 0 THEN "l153" ELSE "l150",
                          ![j].idx = 1]
    /\ seen' = Written(j)
    /\ UNCHANGED <<dl, api>>

MarkNothing(items, idx) == items

\* item["status"] = "running"
MarkRunning(items, idx) == [items EXCEPT ![idx].status = "running"]

\* Line 150: item["status"] = "running", written without the lock.
RunMark(j) ==
    /\ run[j].pc = "l150"
    /\ jobs' = [jobs EXCEPT ![j].items = MarkRunning(@, run[j].idx)]
    /\ run' = [run EXCEPT ![j].pc = "l151"]
    /\ seen' = Written(j)
    /\ UNCHANGED <<lock, dl, api>>

\* Line 151: future_map[executor.submit(download_one, item["url"])] = idx, and the
\* loop goes on to the next item or ends.  Futures are numbered in submission order;
\* idx counts from 1 here and from 0 in enumerate.
RunSubmit(j) ==
    /\ run[j].pc = "l151"
    /\ LET r == run[j]
           u == jobs[j].items[r.idx].url
       IN  run' = [run EXCEPT
                ![j].futures = Append(@, [state |-> "PENDING", url |-> u, result |-> <<"", "">>]),
                ![j].future_map = Append(@, r.idx),
                ![j].idx = r.idx + 1,
                ![j].pc = IF r.idx + 1 > Len(jobs[j].items) THEN "l153" ELSE "l150"]
    /\ UNCHANGED <<jobs, lock, dl, api, seen>>

\* The futures as_completed can yield next: finished and not yet yielded, in any order.
Completed(r) == {f \in DOMAIN r.futures : r.futures[f].state = "FINISHED" /\ f \notin r.yielded}

IdxByCompletion(r, f) == Cardinality(r.yielded) + 1

\* Line 154: idx = future_map[future]
IdxOf(r, f) == r.future_map[f]

OutcomeSwapped(future) == <<future.result[2], future.result[1]>>

OutcomeStatusOnly(future) == <<future.result[1], "">>

\* Line 155: status, message = future.result()
OutcomeOf(future) == future.result

\* Lines 153-160: as_completed yields a finished future f; idx, status and message
\* are taken from it; with jobs_lock: skip when the job is gone, else write the status.
RunOutcome(j, f) ==
    /\ run[j].pc = "l153"
    /\ f \in Completed(run[j])
    /\ lock = 0
    /\ LET r == run[j]
           idx == IdxOf(r, f)
           status == OutcomeOf(r.futures[f])[1]
           message == OutcomeOf(r.futures[f])[2]
       IN  IF r.job_id \in DOMAIN jobs
           THEN /\ lock' = j
                /\ jobs' = [jobs EXCEPT ![j].items[idx].status = status]
                /\ run' = [run EXCEPT ![j].pc = "l161", ![j].cur = idx,
                                      ![j].status = status, ![j].message = message,
                                      ![j].yielded = @ \cup {f}]
                /\ seen' = Written(j)
           ELSE /\ lock' = 0
                /\ jobs' = jobs
                /\ run' = [run EXCEPT ![j].yielded = @ \cup {f}]
                /\ seen' = seen
    /\ UNCHANGED <<dl, api>>

WithMessageRequeued(item, message) ==
    IF message = "" THEN [item EXCEPT !.message = message]
    ELSE [item EXCEPT !.message = message, !.status = "pending"]

\* job_item["message"] = message
WithMessage(item, message) == [item EXCEPT !.message = message]

\* Line 161: write the message; the with block ends and releases the lock.
RunMessage(j) ==
    /\ run[j].pc = "l161"
    /\ jobs' = [jobs EXCEPT ![j].items[run[j].cur] = WithMessage(@, run[j].message)]
    /\ lock' = 0
    /\ run' = [run EXCEPT ![j].pc = "l153", ![j].cur = 0, ![j].status = "", ![j].message = ""]
    /\ seen' = Written(j)
    /\ UNCHANGED <<dl, api>>

\* as_completed is exhausted once every submitted future has been yielded.
AllYielded(r) == r.yielded = DOMAIN r.futures

RunFinalEvery(j) ==
    /\ run[j].pc = "l153"
    /\ AllYielded(run[j])
    /\ lock = 0
    /\ jobs' = [k \in DOMAIN jobs |-> [jobs[k] EXCEPT !.status = FinalStatus(jobs[j].items)]]
    /\ run' = [run EXCEPT ![j].pc = "returned"]
    /\ seen' = Written(j)
    /\ UNCHANGED <<lock, dl, api>>

\* Lines 163-165: the executor is shut down (every future is finished by now);
\* with jobs_lock: write the job's final status.
RunFinal(j) ==
    /\ run[j].pc = "l153"
    /\ AllYielded(run[j])
    /\ lock = 0
    /\ jobs' = IF run[j].job_id \in DOMAIN jobs
               THEN [jobs EXCEPT ![j].status = FinalStatus(jobs[j].items)]
               ELSE jobs
    /\ run' = [run EXCEPT ![j].pc = "returned"]
    /\ seen' = IF run[j].job_id \in DOMAIN jobs THEN Written(j) ELSE seen
    /\ UNCHANGED <<lock, dl, api>>

(***************************************************************************)
(* ThreadPoolExecutor(max_workers=workers) of job j                        *)
(***************************************************************************)
Executing(r) == {f \in DOMAIN r.futures : r.futures[f].state = "RUNNING"}
Queued(r) == {f \in DOMAIN r.futures : r.futures[f].state = "PENDING"}

CanStartUnbounded(r) == TRUE

CanStartOffByOne(r) == Cardinality(Executing(r)) < r.workers - 1

\* A pool thread is free to take a work item: fewer than max_workers are executing.
CanStart(r) == Cardinality(Executing(r)) < r.workers

\* A pool thread takes the oldest queued work item and calls download_one.
WorkerStart(j) ==
    /\ Queued(run[j]) # {}
    /\ CanStart(run[j])
    /\ LET f == CHOOSE g \in Queued(run[j]) : \A h \in Queued(run[j]) : g <= h
       IN  run' = [run EXCEPT ![j].futures[f].state = "RUNNING"]
    /\ UNCHANGED <<jobs, lock, dl, api, seen>>

WorkerFinishRetry(j, f, outcome) ==
    /\ f \in Executing(run[j])
    /\ run' = [run EXCEPT
            ![j].futures[f].state = IF outcome[1] = "error" THEN "PENDING" ELSE "FINISHED",
            ![j].futures[f].result = IF outcome[1] = "error" THEN @ ELSE outcome]
    /\ UNCHANGED <<jobs, lock, dl, api, seen>>

\* Lines 131-138: download_one returns ("done", "") or, on an exception, ("error", str(exc)).
WorkerFinish(j, f, outcome) ==
    /\ f \in Executing(run[j])
    /\ run' = [run EXCEPT ![j].futures[f].state = "FINISHED", ![j].futures[f].result = outcome]
    /\ UNCHANGED <<jobs, lock, dl, api, seen>>

(***************************************************************************)
(* api_job                                                                 *)
(***************************************************************************)
FoundAlways(id) == TRUE

\* job = jobs.get(job_id) is a dict (truthy), not None.
Found(id) == id \in DOMAIN jobs

\* Lines 217-220: with jobs_lock: job = jobs.get(job_id); the lock is released before
\* the job is looked at.
ApiJob(id) ==
    /\ api.pc = "idle"
    /\ lock = 0
    /\ api' = IF Found(id)
              THEN [api EXCEPT !.pc = "l222", !.job_id = id]
              ELSE [api EXCEPT !.pc = "l221", !.job_id = id, !.code = 404]
    /\ seen' = LookedUp(Found(id))
    /\ UNCHANGED <<jobs, lock, dl, run>>

\* Line 221: return jsonify({"error": "Job not found"}), 404
ApiJobNotFound ==
    /\ api.pc = "l221"
    /\ api' = ApiIdle
    /\ UNCHANGED <<jobs, lock, dl, run, seen>>

\* Line 222, jsonify(job) outside the lock: the encoder takes the entries of the job
\* dict (id, status, workers and the items list as it is now) in one go.
Jsonify ==
    /\ api.pc = "l222"
    /\ LET job == jobs[api.job_id]
       IN  api' = [api EXCEPT
                !.snap = [id |-> job.id, status |-> job.status, items |-> <<>>,
                          workers |-> job.workers],
                !.k = 1,
                !.code = IF Len(job.items) = 0 THEN 200 ELSE 0,
                !.pc = IF Len(job.items) = 0 THEN "l222r" ELSE "l222i"]
    /\ UNCHANGED <<jobs, lock, dl, run, seen>>

\* Line 222, continued: the encoder walks the items list and takes the entries of the
\* next item dict in one go.
JsonifyItem ==
    /\ api.pc = "l222i"
    /\ LET items == jobs[api.job_id].items
           last == api.k + 1 > Len(items)
       IN  api' = [api EXCEPT
                !.snap.items = Append(@, items[api.k]),
                !.k = @ + 1,
                !.code = IF last THEN 200 ELSE 0,
                !.pc = IF last THEN "l222r" ELSE "l222i"]
    /\ UNCHANGED <<jobs, lock, dl, run, seen>>

ApiJobReturnEvict ==
    /\ api.pc = "l222r"
    /\ api' = ApiIdle
    /\ seen' = Remember
    /\ jobs' = IF api.snap.status \in {"done", "error"}
               THEN [jobs EXCEPT ![api.job_id].items = <<>>]
               ELSE jobs
    /\ UNCHANGED <<lock, dl, run>>

\* Line 222: the response, api.snap with status 200, is returned.
ApiJobReturn ==
    /\ api.pc = "l222r"
    /\ api' = ApiIdle
    /\ seen' = Remember
    /\ UNCHANGED <<jobs, lock, dl, run>>

(***************************************************************************)
(* Specifications                                                          *)
(***************************************************************************)
\* The requests of the concurrent specifications: a worker count that makes the pool
\* smaller than a list of two targets, and one that does not.
EngineWorkers == {IntW(0), IntW(2)}
EngineRequests(n) == [urls : SeqsUpTo(UrlInputs, n), workers : EngineWorkers]

Budget == MaxTargets - Accepted(Len(run))

Engine ==
    \/ \E data \in EngineRequests(Budget) : ApiDownload(data)
    \/ ApiDownloadReject
    \/ ApiDownloadInsert
    \/ ApiDownloadStart
    \/ ApiDownloadReturn
    \/ \E j \in DOMAIN run : RunBegin(j)
    \/ \E j \in DOMAIN run : RunPopulate(j)
    \/ \E j \in DOMAIN run : RunMark(j)
    \/ \E j \in DOMAIN run : RunSubmit(j)
    \/ \E j \in DOMAIN run : \E f \in DOMAIN run[j].futures : RunOutcome(j, f)
    \/ \E j \in DOMAIN run : RunMessage(j)
    \/ \E j \in DOMAIN run : RunFinal(j)
    \/ \E j \in DOMAIN run : WorkerStart(j)
    \/ \E j \in DOMAIN run : \E f \in DOMAIN run[j].futures : \E o \in Outcomes :
            WorkerFinish(j, f, o)

Poll ==
    \/ \E id \in 1..(Len(jobs) + 1) : ApiJob(id)
    \/ ApiJobNotFound
    \/ Jsonify
    \/ JsonifyItem
    \/ ApiJobReturn

Next == Engine \/ Poll

\* The whole program: job creation, the background runs and their pools, the poller.
Spec == Init /\ [][Next]_vars

\* The whole program, polled by a client that compares successive responses.
SpecClient == InitClient /\ [][Next]_vars

\* The program without the poller.  api_job holds jobs_lock for one step and writes
\* nothing but its own locals, so jobs, lock, dl and run behave the same with and
\* without it.
SpecEngine == Init /\ [][Engine]_vars

\* Job creation alone, over every form of the workers field; no thread is scheduled.
Create ==
    \/ \E data \in Requests(Budget) : ApiDownload(data)
    \/ ApiDownloadReject
    \/ ApiDownloadInsert
    \/ ApiDownloadStart
    \/ ApiDownloadReturn

SpecCreate == Init /\ [][Create]_vars

RunStep(j) ==
    /\ j \in DOMAIN run
    /\ \/ RunBegin(j) \/ RunPopulate(j) \/ RunMark(j) \/ RunSubmit(j) \/ RunMessage(j)
       \/ RunFinal(j)
       \/ \E f \in DOMAIN run[j].futures : RunOutcome(j, f)

PoolStep(j) ==
    /\ j \in DOMAIN run
    /\ \/ WorkerStart(j)
       \/ \E f \in DOMAIN run[j].futures : \E o \in Outcomes : WorkerFinish(j, f, o)

\* Fair scheduling: the request thread of an accepted request, every run_job thread
\* and every pool keep being scheduled, and every download_one call returns.  The
\* poller is left out: it never holds jobs_lock across a step.
Fairness ==
    /\ WF_vars(ApiDownloadInsert)
    /\ WF_vars(ApiDownloadStart)
    /\ \A j \in 1..MaxTargets : WF_vars(RunStep(j)) /\ WF_vars(PoolStep(j))

FairSpec == Init /\ [][Engine]_vars /\ Fairness

(***************************************************************************)
(* Claims                                                                  *)
(***************************************************************************)
Terminal == {"done", "error"}

ItemsOf(j) == jobs[j].items

\* C1: a job's status is done only when every item is done, error only when some
\* item is error and every item is done or error, and neither while an item is
\* pending or running; the final status write comes after every outcome write.
C1_JobStatusAgreesWithItems ==
    \A j \in DOMAIN jobs :
        /\ jobs[j].status = "done" =>
                \A i \in DOMAIN ItemsOf(j) : ItemsOf(j)[i].status = "done"
        /\ jobs[j].status = "error" =>
                /\ \E i \in DOMAIN ItemsOf(j) : ItemsOf(j)[i].status = "error"
                /\ \A i \in DOMAIN ItemsOf(j) : ItemsOf(j)[i].status \in Terminal
        /\ jobs[j].status \in Terminal =>
                /\ \A i \in DOMAIN ItemsOf(j) : ItemsOf(j)[i].status \notin {"pending", "running"}
                /\ j \in DOMAIN run
                /\ run[j].pc = "returned"
                /\ run[j].yielded = 1..Len(run[j].urls)

C1_Witness ==
    \E j \in DOMAIN jobs :
        /\ jobs[j].status = "error"
        /\ \E i \in DOMAIN ItemsOf(j) : ItemsOf(j)[i].status = "error"
        /\ \E i \in DOMAIN ItemsOf(j) : ItemsOf(j)[i].status = "done"

\* The shape every job record has at an instant at which jobs_lock is free.
AtRest(job) ==
    /\ job.status = "pending" <=> job.items = <<>>
    /\ \A i \in DOMAIN job.items :
            IF job.items[i].status = "error" THEN job.items[i].message \in Messages
            ELSE job.items[i].message = ""
    /\ job.status \in Terminal =>
            /\ \A i \in DOMAIN job.items : job.items[i].status \in Terminal
            /\ job.status = FinalStatus(job.items)

\* Every record is AtRest whenever no thread is inside a critical section.
AtRestWhenUnlocked == lock = 0 => \A j \in DOMAIN jobs : AtRest(jobs[j])

\* C2: the snapshot api_job returns is the job record as it stood at an instant at
\* which no writer was inside a jobs_lock critical section, never a torn record.
C2_SnapshotNotTorn == api.pc = "l222r" => AtRest(api.snap)

RunningItems(j) == {i \in DOMAIN ItemsOf(j) : ItemsOf(j)[i].status = "running"}

\* C3: the number of a job's items whose status is running is at most its workers.
C3_RunningItemsWithinWorkers ==
    \A j \in DOMAIN jobs : Cardinality(RunningItems(j)) <= jobs[j].workers

\* C4: the pool of a job never has more than job.workers download_one calls
\* executing at the same instant.
C4_ExecutingWithinWorkers ==
    \A j \in DOMAIN run : Cardinality(Executing(run[j])) <= jobs[j].workers

C4_Witness ==
    \E j \in DOMAIN run :
        /\ Len(run[j].urls) > jobs[j].workers
        /\ Cardinality(Executing(run[j])) = jobs[j].workers
        /\ Queued(run[j]) # {}

ItemStep(a, b) ==
    \/ a = b
    \/ a = "pending" /\ b = "running"
    \/ a = "running" /\ b \in Terminal

\* C5: an item's status only moves pending -> running -> done | error: no step takes
\* it back, none turns done into error or error into done, and a terminal status
\* never changes again.
C5_ItemStatusAdvances ==
    [][\A j \in DOMAIN jobs : \A i \in DOMAIN ItemsOf(j) :
            /\ j \in DOMAIN jobs'
            /\ i \in DOMAIN jobs'[j].items
            /\ ItemStep(ItemsOf(j)[i].status, jobs'[j].items[i].status)]_vars

C5_Witness ==
    \E j \in DOMAIN jobs :
        /\ jobs[j].status = "running"
        /\ \E i \in DOMAIN ItemsOf(j) : ItemsOf(j)[i].status \in Terminal
        /\ \E i \in DOMAIN ItemsOf(j) : ItemsOf(j)[i].status = "running"

JobStep(a, b) ==
    \/ a = b
    \/ a = "pending" /\ b = "running"
    \/ a = "running" /\ b \in Terminal

\* C6: a job's status changes only pending -> running, running -> done and
\* running -> error; once it is done or error no step changes it.
C6_JobStatusAdvances ==
    [][\A j \in DOMAIN jobs :
            /\ j \in DOMAIN jobs'
            /\ JobStep(jobs[j].status, jobs'[j].status)]_vars

C6_Witness ==
    \E j \in DOMAIN jobs : \E k \in DOMAIN jobs :
        jobs[j].status = "done" /\ jobs[k].status = "error"

Finished(j) ==
    /\ j \in DOMAIN jobs
    /\ jobs[j].status \in Terminal
    /\ ItemsOf(j) # <<>>
    /\ \A i \in DOMAIN ItemsOf(j) : ItemsOf(j)[i].status \in Terminal

\* C7: under fair scheduling, with every download_one call returning, every job
\* create_job has registered reaches done or error, and so does each of its items,
\* also while another job runs.
C7_EveryJobFinishes == \A j \in 1..MaxTargets : (j \in DOMAIN jobs) ~> Finished(j)

C7_Witness ==
    /\ Len(jobs) >= 2
    /\ Finished(2)
    /\ jobs[1].status = "running"

Failed(r) == {f \in DOMAIN r.futures : r.futures[f].result[1] = "error"}

\* C8: when download_one fails for an item, the run still executes every item and
\* returns: the failed item shows error with the failure's message, every item is
\* terminal and the job's status is error.
C8_FailureContained ==
    \A j \in DOMAIN run :
        run[j].pc = "returned" =>
            /\ Len(run[j].futures) = Len(run[j].urls)
            /\ \A f \in DOMAIN run[j].futures : run[j].futures[f].state = "FINISHED"
            /\ \A i \in DOMAIN ItemsOf(j) : ItemsOf(j)[i].status \in Terminal
            /\ \A f \in Failed(run[j]) :
                    /\ ItemsOf(j)[f].status = "error"
                    /\ ItemsOf(j)[f].message = run[j].futures[f].result[2]
            /\ Failed(run[j]) # {} => jobs[j].status = "error"
            /\ Failed(run[j]) = {} => jobs[j].status = "done"

C8_Witness ==
    \E j \in DOMAIN run :
        /\ run[j].pc = "returned"
        /\ Failed(run[j]) = {1}
        /\ ItemsOf(j)[1].message \in Messages
        /\ Len(ItemsOf(j)) = 2
        /\ ItemsOf(j)[2].status = "done"

\* C9: once a job is terminal, item i carries the i-th submitted target (duplicates
\* kept, order kept) and the status and message that the download_one call made for
\* that target returned, whatever the order of completion; a done item has the
\* empty message.
C9_OutcomesByIndex ==
    \A j \in DOMAIN run :
        jobs[j].status \in Terminal =>
            /\ Len(ItemsOf(j)) = Len(run[j].urls)
            /\ Len(run[j].futures) = Len(run[j].urls)
            /\ \A i \in DOMAIN ItemsOf(j) :
                    /\ ItemsOf(j)[i].url = run[j].urls[i]
                    /\ run[j].futures[i].url = run[j].urls[i]
                    /\ <<ItemsOf(j)[i].status, ItemsOf(j)[i].message>> = run[j].futures[i].result
                    /\ ItemsOf(j)[i].status = "done" => ItemsOf(j)[i].message = ""

C9_Witness ==
    \E j \in DOMAIN run :
        /\ jobs[j].status \in Terminal
        /\ Len(ItemsOf(j)) = 2
        /\ ItemsOf(j)[1].url = ItemsOf(j)[2].url
        /\ ItemsOf(j)[1].status = "error"
        /\ ItemsOf(j)[2].status = "done"

Accepting == dl.pc \in {"l202", "l209", "l213"}

Registered == dl.pc \in {"l209", "l213"} => jobs[dl.job_id].workers = dl.workers

\* C10 as stated: a request with workers = 0 or a negative number yields the default
\* worker count, and one above the maximum yields the maximum.
C10_NonPositiveYieldsDefault ==
    (Accepting /\ dl.data.workers.t = "int") =>
        /\ dl.data.workers.n <= 0 => dl.workers = DEFAULT_WORKERS
        /\ dl.data.workers.n > MAX_WORKERS => dl.workers = MAX_WORKERS
        /\ Registered

\* C10 as amended: a request with workers = 0 or a negative number yields 1, the
\* lower end of the range, and one above the maximum yields the maximum.
C10_NonPositiveYieldsOne ==
    (Accepting /\ dl.data.workers.t = "int") =>
        /\ dl.data.workers.n <= 0 => dl.workers = 1
        /\ dl.data.workers.n > MAX_WORKERS => dl.workers = MAX_WORKERS
        /\ Registered

C10_Witness ==
    /\ dl.pc = "l213"
    /\ dl.data.workers = IntW(0)
    /\ jobs[dl.job_id].workers = 1
    /\ \E j \in DOMAIN jobs : jobs[j].workers = MAX_WORKERS

\* A worker count the program cannot use as given: JSON null, a string that is not a
\* number, or a number below 1.
Unusable(w) == w.t # "absent" /\ (~PyInt(w).ok \/ PyInt(w).v < 1)

InFlight == dl.pc # "idle"

NonBlank(raw) == \E i \in DOMAIN raw : raw[i] \notin {"", " "}

\* C11 as stated: a create request with an unusable worker count is rejected at
\* creation: it gets the 400 response, no job id, no job record and no run_job thread.
C11_UnusableWorkersRejected ==
    (InFlight /\ Unusable(dl.data.workers)) =>
        /\ dl.pc = "l200"
        /\ dl.code = 400
        /\ dl.job_id = 0
        /\ Len(run) = Len(jobs)

\* C11 as amended: a create request with an unusable worker count and at least one
\* non-blank target is not rejected: it is given a job id, the job is registered with
\* a workers value in 1..MAX_WORKERS (DEFAULT_WORKERS when the count is not a number,
\* 1 when it is below 1) and its run_job thread is started before the id is returned.
C11_UnusableWorkersAccepted ==
    (InFlight /\ Unusable(dl.data.workers) /\ NonBlank(dl.data.urls)) =>
        /\ Accepting
        /\ dl.job_id >= 1
        /\ dl.workers = IF PyInt(dl.data.workers).ok THEN 1 ELSE DEFAULT_WORKERS
        /\ dl.pc \in {"l209", "l213"} =>
                /\ dl.job_id \in DOMAIN jobs
                /\ jobs[dl.job_id].workers = dl.workers
        /\ dl.pc = "l213" =>
                /\ dl.code = 200
                /\ dl.job_id \in DOMAIN run
                /\ run[dl.job_id].workers = dl.workers

C11_Witness ==
    /\ dl.pc = "l213"
    /\ dl.data.workers = StrW(<<"x">>)
    /\ jobs[dl.job_id].workers = DEFAULT_WORKERS
    /\ run[dl.job_id].pc = "l140"
    /\ \E j \in DOMAIN jobs : j # dl.job_id /\ jobs[j].workers = 1

\* C12: a create request whose url list is empty, or holds blank entries only, gets
\* the 400 response with no job id drawn, and the steps that take and answer it leave
\* the registry, the lock and the run_job threads as they were.
C12_EmptyListRejected ==
    /\ [](InFlight /\ ~NonBlank(dl.data.urls) =>
            /\ dl.pc = "l200"
            /\ dl.code = 400
            /\ dl.job_id = 0
            /\ dl.urls = <<>>)
    /\ [][(dl.pc = "l200" \/ dl'.pc = "l200") => UNCHANGED <<jobs, lock, run>>]_vars

C12_Witness ==
    /\ dl.pc = "l200"
    /\ Len(dl.data.urls) >= 1
    /\ Len(jobs) = 1
    /\ Len(run) = 1

\* C13: the workers value of every registered job, and the max_workers of the pool
\* its run_job thread creates, is the same integer in 1..MAX_WORKERS whatever the
\* request held; a count above MAX_WORKERS is stored as MAX_WORKERS.
C13_WorkersWithinRange ==
    /\ \A j \in DOMAIN jobs : jobs[j].workers \in 1..MAX_WORKERS
    /\ \A j \in DOMAIN run :
            /\ run[j].workers \in 1..MAX_WORKERS
            /\ run[j].workers = jobs[j].workers
    /\ (dl.pc \in {"l209", "l213"} /\ PyInt(dl.data.workers).ok
            /\ PyInt(dl.data.workers).v > MAX_WORKERS) =>
                jobs[dl.job_id].workers = MAX_WORKERS

C13_Witness ==
    /\ dl.pc = "l213"
    /\ dl.data.workers = IntW(MAX_WORKERS + 1)
    /\ run[dl.job_id].workers = MAX_WORKERS
    /\ \E j \in DOMAIN jobs : jobs[j].workers = DEFAULT_WORKERS

AllDone(j) == \A i \in DOMAIN ItemsOf(j) : ItemsOf(j)[i].status = "done"

AllTerminal(j) == \A i \in DOMAIN ItemsOf(j) : ItemsOf(j)[i].status \in Terminal

SomeError(j) == \E i \in DOMAIN ItemsOf(j) : ItemsOf(j)[i].status = "error"

Populated(j) == ItemsOf(j) # <<>>

\* C14 as stated: at every instant at which jobs_lock is free and the items list has
\* been populated, the job's status is done exactly when every item is done, and
\* error exactly when some item is error and every item is done or error.
C14_StatusIffItems ==
    \A j \in DOMAIN jobs :
        (lock = 0 /\ Populated(j)) =>
            /\ jobs[j].status = "done" <=> AllDone(j)
            /\ jobs[j].status = "error" <=> (SomeError(j) /\ AllTerminal(j))

\* C14 as amended: once the items list is populated, status done implies every item
\* is done and status error implies some item is error and every item is done or
\* error, at every instant; the converse holds once run_job has made its final
\* status write, and before that write the status is running.
C14_StatusIffItemsOnceFinal ==
    \A j \in DOMAIN jobs :
        Populated(j) =>
            /\ jobs[j].status = "done" => AllDone(j)
            /\ jobs[j].status = "error" => (SomeError(j) /\ AllTerminal(j))
            /\ run[j].pc = "returned" =>
                    /\ AllDone(j) => jobs[j].status = "done"
                    /\ (SomeError(j) /\ AllTerminal(j)) => jobs[j].status = "error"
            /\ run[j].pc # "returned" => jobs[j].status = "running"

C14_Witness ==
    /\ lock = 0
    /\ \E j \in DOMAIN jobs : \E k \in DOMAIN jobs :
            /\ Populated(j) /\ AllDone(j) /\ jobs[j].status = "running"
            /\ Populated(k) /\ AllDone(k) /\ jobs[k].status = "done"
            /\ run[k].pc = "returned"

\* The number of targets job j was created with: the cleaned url list handed to its
\* run_job thread, still held by api_download until the thread is started.
Targets(j) == IF j \in DOMAIN run THEN Len(run[j].urls) ELSE Len(dl.urls)

\* C15: the items list of a job is empty until run_job populates it and has one
\* item per target of the job from then on; no step changes the length of a
\* populated list.
C15_ItemsLengthFixed ==
    /\ [](\A j \in DOMAIN jobs : Len(ItemsOf(j)) \in {0, Targets(j)})
    /\ [][\A j \in DOMAIN jobs :
                Populated(j) => (j \in DOMAIN jobs' /\ Len(jobs'[j].items) = Len(ItemsOf(j)))]_vars

C15_Witness ==
    \E j \in DOMAIN jobs :
        /\ Len(ItemsOf(j)) = 2
        /\ run[j].urls[1] = run[j].urls[2]
        /\ Len(dl.data.urls) = 0
        /\ jobs[j].status \in Terminal

\* C16: api_download returns the id after the insertion: whenever the run_job thread
\* of a job exists, and whenever api_download is about to return the id, the job is
\* in the registry, and it is still pending with no items when the thread has not
\* made its lookup; run_job never returns through the branch for a missing job;
\* api_job answers not-found for no id whose thread has been started; and the
\* return of the id is enabled whatever the items are doing.
C16_RegisteredBeforeRunAndReturn ==
    /\ [](/\ \A j \in DOMAIN run :
                /\ j \in DOMAIN jobs
                /\ run[j].job_id = j
                /\ run[j].pc = "l140" =>
                        jobs[j] = [id |-> j, status |-> "pending", items |-> <<>>,
                                   workers |-> run[j].workers]
                /\ run[j].pc = "returned" => jobs[j].status \in Terminal
          /\ dl.pc \in {"l209", "l213"} =>
                /\ dl.job_id \in DOMAIN jobs
                /\ jobs[dl.job_id].id = dl.job_id
          /\ dl.pc = "l213" => ENABLED ApiDownloadReturn)
    /\ [][(api.pc = "idle" /\ api'.pc = "l221") => api'.job_id \notin DOMAIN run]_vars

C16_Witness ==
    /\ dl.pc = "idle"
    /\ api.pc = "l222r"
    /\ api.job_id \in DOMAIN run
    /\ run[api.job_id].pc = "l140"
    /\ api.snap.status = "pending"
    /\ api.snap.items = <<>>

\* C17: the number of done or error items in a response of api_job for a job is at
\* least the number in the response of the poll before it for the same job, the
\* later poll being issued after the earlier one returned.
C17_TerminalCountNeverDrops ==
    api.pc = "l222r" => TerminalCount(api.snap) >= seen.last[api.job_id]

C17_Witness ==
    /\ api.pc = "l222r"
    /\ seen.last[api.job_id] = 1
    /\ TerminalCount(api.snap) = 2
    /\ jobs[api.job_id].status = "running"

\* C18: a poll for an id that is not in the registry gets the 404 response and no
\* snapshot, and the two steps of that poll leave the registry, every job record,
\* the lock and every other thread as they were.
C18_UnknownIdNotFound ==
    [][/\ (api.pc = "idle" /\ api'.pc # "idle" /\ api'.job_id \notin DOMAIN jobs) =>
            /\ api'.pc = "l221"
            /\ api'.code = 404
            /\ api'.snap = NoSnap
            /\ UNCHANGED <<jobs, lock, dl, run>>
       /\ (api.pc = "l221" /\ api' # api) =>
            /\ api' = ApiIdle
            /\ UNCHANGED <<jobs, lock, dl, run>>]_vars

C18_Witness ==
    /\ api.pc = "l221"
    /\ api.code = 404
    /\ Len(jobs) >= 1
    /\ api.job_id = Len(jobs) + 1
    /\ \E j \in DOMAIN jobs : jobs[j].status = "running"

\* C19: no step of api_job changes the registry, a job record, the lock or another
\* thread; and a response equals the response of the poll before it for the same
\* job when no run_job step has written that job's record from the lookup of the
\* earlier poll to the end of the later one.
C19_PureRead ==
    /\ [](api.pc = "l222r" /\ seen.quiet /\ seen.same[api.job_id] # NoSnap =>
                api.snap = seen.same[api.job_id])
    /\ [][api' # api => UNCHANGED <<jobs, lock, dl, run>>]_vars

C19_Witness ==
    /\ api.pc = "l222r"
    /\ seen.quiet
    /\ seen.same[api.job_id] # NoSnap
    /\ api.snap = seen.same[api.job_id]
    /\ api.snap.status = "running"
    /\ Len(api.snap.items) = 2
    /\ api.snap.items[1].status = "error"

\* C20: every step of a run_job thread that changes a job record is taken inside a
\* jobs_lock critical section: the lock is free and taken by the step, or already
\* held by that thread; no record changes while another thread holds the lock.
C20_WritesUnderLock ==
    [][\A j \in DOMAIN jobs : jobs'[j] # jobs[j] => lock \in {0, j}]_vars

FutureStep(a, b) ==
    \/ a = b
    \/ a.state = "PENDING" /\ b.state = "RUNNING" /\ b.url = a.url
    \/ a.state = "RUNNING" /\ b.state = "FINISHED" /\ b.url = a.url

\* C21: each item of a job is submitted at most once and in order, its download_one
\* call is started once and finishes once (no call is started again, also after a
\* failure), each finished call is yielded by as_completed once, and each yield
\* writes the outcome of that call to that call's item; when run_job returns every
\* item has been submitted and every outcome has been applied.
C21_EachItemOnce ==
    /\ [](\A j \in DOMAIN run :
            /\ Len(run[j].futures) <= Len(run[j].urls)
            /\ run[j].future_map = [f \in 1..Len(run[j].futures) |-> f]
            /\ \A f \in run[j].yielded :
                    /\ f \in DOMAIN run[j].futures
                    /\ run[j].futures[f].state = "FINISHED"
            /\ run[j].pc = "returned" =>
                    /\ Len(run[j].futures) = Len(run[j].urls)
                    /\ run[j].yielded = 1..Len(run[j].urls)
                    /\ \A i \in DOMAIN ItemsOf(j) :
                            <<ItemsOf(j)[i].status, ItemsOf(j)[i].message>>
                                = run[j].futures[i].result)
    /\ [][\A j \in DOMAIN run :
            /\ j \in DOMAIN run'
            /\ \A f \in DOMAIN run[j].futures :
                    /\ f \in DOMAIN run'[j].futures
                    /\ FutureStep(run[j].futures[f], run'[j].futures[f])
            /\ run[j].yielded \subseteq run'[j].yielded
            /\ Cardinality(run'[j].yielded) <= Cardinality(run[j].yielded) + 1
            /\ (run[j].pc = "l153" /\ run'[j].pc = "l161") =>
                    \E f \in run'[j].yielded \ run[j].yielded :
                        /\ run'[j].cur = f
                        /\ jobs'[j].items[f].status = run[j].futures[f].result[1]
            /\ \A i \in DOMAIN ItemsOf(j) :
                    (ItemsOf(j)[i].status \notin Terminal
                        /\ jobs'[j].items[i].status \in Terminal) =>
                            i \in run'[j].yielded \ run[j].yielded]_vars

C21_Witness ==
    \E j \in DOMAIN run :
        /\ run[j].pc = "l153"
        /\ run[j].yielded = {2}
        /\ run[j].futures[1].state = "FINISHED"
        /\ run[j].futures[1].result[1] = "error"
        /\ ItemsOf(j)[1].status = "running"
        /\ ItemsOf(j)[2].status = "done"

MessageOnlyOnError(items) ==
    \A i \in DOMAIN items : items[i].message # "" => items[i].status = "error"

\* C23: in every state, also between the status write and the message write of an
\* outcome, and in every response of api_job, an item with a non-empty message has
\* status error: pending, running and done items have the empty message.
C23_MessageOnlyOnError ==
    /\ \A j \in DOMAIN jobs : MessageOnlyOnError(ItemsOf(j))
    /\ MessageOnlyOnError(api.snap.items)

C23_Witness ==
    /\ api.pc = "l222r"
    /\ Len(api.snap.items) = 2
    /\ api.snap.items[1].status = "error"
    /\ api.snap.items[1].message = ""
    /\ api.snap.items[2].status = "error"
    /\ api.snap.items[2].message # ""
    /\ lock = api.job_id
    /\ run[api.job_id].pc = "l161"

\* C24: a registered job has status pending exactly when its items list is empty, at
\* every instant at which jobs_lock is free and in every response of api_job: no
\* observer sees running with no items or pending with items.
C24_PendingIffNoItems ==
    /\ lock = 0 => \A j \in DOMAIN jobs : (jobs[j].status = "pending" <=> ItemsOf(j) = <<>>)
    /\ api.pc = "l222r" => (api.snap.status = "pending" <=> api.snap.items = <<>>)

NotConvertible(w) == w.t \in {"absent", "null"} \/ (w.t = "str" /\ ~PyInt(w).ok)

\* C25: a create request whose workers field is absent, null or a string that is not
\* an integer, and whose url list has a non-blank entry, is accepted, and the job is
\* registered and run with exactly DEFAULT_WORKERS workers.
C25_DefaultWhenNotConvertible ==
    (InFlight /\ NotConvertible(dl.data.workers) /\ NonBlank(dl.data.urls)) =>
        /\ Accepting
        /\ dl.workers = DEFAULT_WORKERS
        /\ dl.pc \in {"l209", "l213"} => jobs[dl.job_id].workers = DEFAULT_WORKERS
        /\ dl.pc = "l213" => run[dl.job_id].workers = DEFAULT_WORKERS

C25_Witness ==
    /\ dl.pc = "l213"
    /\ dl.data.workers = Absent
    /\ dl.job_id = 2
    /\ jobs[2].workers = DEFAULT_WORKERS
    /\ run[2].workers = DEFAULT_WORKERS
    /\ jobs[1].workers = 2

\* C26: every record keeps its id and its workers value from its insertion on, and
\* a step that changes the record of job j is a step of the run_job thread of job
\* j: it changes no other record, and no step of api_download, of api_job, of a
\* pool or of another job's run_job changes the record.
C26_Frame ==
    /\ [](\A j \in DOMAIN jobs : jobs[j].id = j)
    /\ [][\A j \in DOMAIN jobs :
            /\ j \in DOMAIN jobs'
            /\ jobs'[j].id = jobs[j].id
            /\ jobs'[j].workers = jobs[j].workers
            /\ jobs'[j] # jobs[j] =>
                    /\ j \in DOMAIN run
                    /\ run'[j].pc # run[j].pc
                    /\ \A k \in DOMAIN run \ {j} : run'[k] = run[k]
                    /\ \A k \in DOMAIN jobs \ {j} : jobs'[k] = jobs[k]
                    /\ dl' = dl
                    /\ api' = api]_vars

C26_Witness ==
    /\ Len(jobs) = 2
    /\ jobs[1].status = "error"
    /\ jobs[2] = [id |-> 2, status |-> "pending", items |-> <<>>, workers |-> 2]
    /\ jobs[1].workers = 1
    /\ api.pc = "l222r"
    /\ dl.pc = "l213"
====
